---- MODULE Spec2Model ----
(***************************************************************************)
(* Model of src/app.py: the Fundamentus FII screener.                      *)
(*                                                                         *)
(* Numbers are fixed-point integers in hundredths (8.00 is 800), which is  *)
(* exact for every raw cell used here (at most two decimals).  A cell of   *)
(* the table read by pandas is a tagged value: a number, a text, or NaN.   *)
(* Texts are sequences of one-character strings so that the replacements   *)
(* and the float parse of clean_percent are computed, not assumed.         *)
(***************************************************************************)
EXTENDS Integers, Sequences, FiniteSets, TLC

\* ---------------------------------------------------------------- bounds
MaxRows == 3
MaxTime == 7300
MaxRequests == 3

\* ------------------------------------------------------------- constants
\* @st.cache_data(ttl=3600)
TTL == 3600

\* df.columns = [...]: the 13 names assigned positionally
COLUMNS ==
  << "TICKER", "SEGMENTO", "COTACAO", "FFO_YIELD", "DIVIDEND_YIELD",
     "P_VP", "VALOR_MERCADO", "LIQUIDEZ", "QTD_IMOVEIS",
     "PRECO_M2", "ALUGUEL_M2", "CAP_RATE", "VACANCIA_MEDIA" >>

\* ----------------------------------------------------------------- cells
Num(n) == [k |-> "num", v |-> n, s |-> << >>]
Text(s) == [k |-> "text", v |-> 0, s |-> s]
NaN == [k |-> "nan", v |-> 0, s |-> << >>]
\* a missing TICKER / SEGMENTO cell (pandas reads an empty cell as NaN)
Missing == "<NaN>"

isnull(c) == c.k = "nan"

\* ------------------------------------------------------- text operations
Digits == {"0", "1", "2", "3", "4", "5", "6", "7", "8", "9"}

DigitVal(c) ==
  CASE c = "0" -> 0 [] c = "1" -> 1 [] c = "2" -> 2 [] c = "3" -> 3
    [] c = "4" -> 4 [] c = "5" -> 5 [] c = "6" -> 6 [] c = "7" -> 7
    [] c = "8" -> 8 [] c = "9" -> 9

\* str.replace(old, new) for a one-character old and a new of length <= 1
RECURSIVE str_replace(_, _, _)
str_replace(s, old, new) ==
  IF s = << >> THEN << >>
  ELSE (IF Head(s) = old THEN new ELSE << Head(s) >>)
         \o str_replace(Tail(s), old, new)

AllDigits(s) == \A i \in 1..Len(s) : s[i] \in Digits

RECURSIVE DigitsValue(_)
DigitsValue(s) ==
  IF s = << >> THEN 0
  ELSE 10 * DigitsValue(SubSeq(s, 1, Len(s) - 1)) + DigitVal(s[Len(s)])

DotPositions(s) == {i \in 1..Len(s) : s[i] = "."}

\* the hundredths of a fractional part: "5" is 50, "56" is 56, "" is 0
FracHundredths(f) ==
  IF Len(f) = 0 THEN 0
  ELSE IF Len(f) = 1 THEN 10 * DigitVal(f[1])
  ELSE 10 * DigitVal(f[1]) + DigitVal(f[2])

\* float(text) on an unsigned literal: digits [ "." digits ], at least one
\* digit; anything else raises ValueError.
UnsignedFloat(s) ==
  LET dots == DotPositions(s) IN
  IF Cardinality(dots) > 1 THEN [ok |-> FALSE, v |-> 0]
  ELSE IF dots = {} THEN
    IF Len(s) > 0 /\ AllDigits(s) THEN [ok |-> TRUE, v |-> 100 * DigitsValue(s)]
    ELSE [ok |-> FALSE, v |-> 0]
  ELSE
    LET d == CHOOSE i \in dots : TRUE
        ip == SubSeq(s, 1, d - 1)
        fp == SubSeq(s, d + 1, Len(s))
    IN IF AllDigits(ip) /\ AllDigits(fp) /\ Len(ip) + Len(fp) > 0
       THEN [ok |-> TRUE, v |-> 100 * DigitsValue(ip) + FracHundredths(fp)]
       ELSE [ok |-> FALSE, v |-> 0]

\* float(text): an optional sign, then an unsigned literal
float(s) ==
  IF Len(s) > 0 /\ s[1] \in {"-", "+"}
  THEN LET u == UnsignedFloat(Tail(s)) IN
       [ok |-> u.ok, v |-> IF s[1] = "-" THEN 0 - u.v ELSE u.v]
  ELSE UnsignedFloat(s)

\* ------------------------------------------------------------- raw rows
\* A row of tabelas[0] as pd.read_html(decimal=',', thousands='.') yields it:
\* plain numbers are parsed by read_html, percentages stay texts.
RowA ==
  [ TICKER |-> "A", SEGMENTO |-> "Shopping",
    FFO_YIELD |-> Text(<< "7", ",", "5", "%" >>),
    DIVIDEND_YIELD |-> Text(<< "8", ",", "0", "0", "%" >>),
    P_VP |-> Num(90), LIQUIDEZ |-> Num(5000000),
    CAP_RATE |-> Text(<< "9", ",", "1", "%" >>),
    VACANCIA_MEDIA |-> Text(<< "5", ",", "0", "0", "%" >>) ]

RowB ==
  [ RowA EXCEPT !.TICKER = "B",
      !.DIVIDEND_YIELD = Text(<< "1", "0", ",", "0", "0", "%" >>),
      !.P_VP = Num(120), !.LIQUIDEZ = Num(20000000),
      !.VACANCIA_MEDIA = Text(<< "2", ",", "0", "0", "%" >>) ]

RowC ==
  [ RowA EXCEPT !.TICKER = "C", !.SEGMENTO = "Logistics",
      !.DIVIDEND_YIELD = Text(<< "6", ",", "0", "0", "%" >>),
      !.P_VP = Num(80), !.LIQUIDEZ = Num(8000000),
      !.VACANCIA_MEDIA = Text(<< "1", ",", "0", "0", "%" >>) ]

\* a numeric percentage cell (passed through) tying with A on the yield,
\* and a missing cap rate (not a critical metric)
RowD ==
  [ RowA EXCEPT !.TICKER = "D", !.SEGMENTO = "Logistics",
      !.DIVIDEND_YIELD = Num(800), !.P_VP = Num(100),
      !.CAP_RATE = NaN, !.VACANCIA_MEDIA = Text(<< "0", "%" >>) ]

\* a fund whose segment cell is empty on the site
RowN ==
  [ RowA EXCEPT !.TICKER = "N", !.SEGMENTO = Missing,
      !.DIVIDEND_YIELD = Text(<< "1", ".", "2", "3", "4", ",", "5", "6", "%" >>),
      !.P_VP = Num(95), !.LIQUIDEZ = Num(8000000) ]

\* rows with one defect each
RowX1 == [ RowA EXCEPT !.TICKER = "X1", !.DIVIDEND_YIELD = Text(<< >>) ]
RowX2 == [ RowA EXCEPT !.TICKER = "X2", !.P_VP = Text(<< "n", "/", "d" >>) ]
RowX3 == [ RowC EXCEPT !.TICKER = "X3", !.VACANCIA_MEDIA = NaN ]
RowX4 == [ RowC EXCEPT !.TICKER = "X4", !.LIQUIDEZ = Num(0) ]
RowX5 == [ RowB EXCEPT !.TICKER = "X5", !.LIQUIDEZ = Text(<< "-" >>) ]
RowX6 == [ RowB EXCEPT !.TICKER = "X6", !.DIVIDEND_YIELD = Text(<< "n", "/", "d" >>) ]

RawRows ==
  { RowA, RowB, RowC, RowD, RowN,
    RowX1, RowX2, RowX3, RowX4, RowX5, RowX6 }

\* tables of at most MaxRows rows, no row twice (tickers are the site's keys)
TablesOver(rows) ==
  UNION { { t \in [1..n -> rows] : \A i, j \in 1..n : t[i] = t[j] => i = j }
          : n \in 0..MaxRows }

Response(kind, ncols, rows) == [kind |-> kind, ncols |-> ncols, rows |-> rows]

\* what requests.get + pd.read_html can meet
FailedResponses ==
  { Response("transport_error", 0, << >>),
    Response("no_table", 0, << >>),
    Response("table", Len(COLUMNS) - 1, << RowA, RowB >>) }

Responses ==
  FailedResponses
    \cup { Response("table", Len(COLUMNS), t) : t \in TablesOver(RawRows) }

NoResponse == Response("none", 0, << >>)

\* ------------------------------------------------------- normalisation
cols_percent == << "DIVIDEND_YIELD", "VACANCIA_MEDIA", "FFO_YIELD", "CAP_RATE" >>

\* clean_percent(value): [ok |-> FALSE] stands for the ValueError of float()
clean_percent(value) ==
  IF value.k = "text"
  THEN LET cleaned_value ==
             str_replace(
               str_replace(str_replace(value.s, ".", << >>), ",", << "." >>),
               "%", << >>)
       IN IF cleaned_value = << >> THEN [ok |-> TRUE, c |-> NaN]
          ELSE LET f == float(cleaned_value) IN
               [ok |-> f.ok, c |-> IF f.ok THEN Num(f.v) ELSE NaN]
  ELSE [ok |-> TRUE, c |-> value]

\* pd.to_numeric(..., errors='coerce') on one cell
to_numeric(value) ==
  IF value.k = "text"
  THEN LET f == float(value.s) IN IF f.ok THEN Num(f.v) ELSE NaN
  ELSE value

\* the percentage loop raises as soon as one cell of one column does
percent_raises(rows) ==
  \E i \in 1..Len(rows) : \E j \in 1..Len(cols_percent) :
    ~ clean_percent(rows[i][cols_percent[j]]).ok

convert_row(r) ==
  [ r EXCEPT
      !.DIVIDEND_YIELD = clean_percent(r.DIVIDEND_YIELD).c,
      !.VACANCIA_MEDIA = clean_percent(r.VACANCIA_MEDIA).c,
      !.FFO_YIELD = clean_percent(r.FFO_YIELD).c,
      !.CAP_RATE = clean_percent(r.CAP_RATE).c,
      !.P_VP = to_numeric(r.P_VP),
      !.LIQUIDEZ = to_numeric(r.LIQUIDEZ) ]

\* df.dropna(subset=[...]) keeps a row with none of the four null
dropna_keeps(r) ==
  /\ ~ isnull(r.DIVIDEND_YIELD)
  /\ ~ isnull(r.P_VP)
  /\ ~ isnull(r.VACANCIA_MEDIA)
  /\ ~ isnull(r.LIQUIDEZ)

\* variant: the liquidity filter written with >= keeps a liquidity of zero
liquidez_nonnegative(r) == r.LIQUIDEZ.k = "num" /\ r.LIQUIDEZ.v >= 0

\* df[df['LIQUIDEZ'] > 0]; a comparison with NaN is False
liquidez_positive(r) == r.LIQUIDEZ.k = "num" /\ r.LIQUIDEZ.v > 0

row_kept(r) == dropna_keeps(r) /\ liquidez_positive(r)

convert_rows(rows) == [i \in 1..Len(rows) |-> convert_row(rows[i])]

\* the try block: the exception it raises ("" for none) and the frame
try_body(resp) ==
  IF resp.kind = "transport_error"
  THEN [exc |-> "ConnectionError", df |-> << >>]
  ELSE IF resp.kind # "table"
  THEN [exc |-> "ValueError: No tables found", df |-> << >>]
  ELSE IF resp.ncols # Len(COLUMNS)
  THEN [exc |-> "ValueError: Length mismatch", df |-> << >>]
  ELSE IF percent_raises(resp.rows)
  THEN [exc |-> "ValueError: could not convert string to float", df |-> << >>]
  ELSE [exc |-> "", df |-> SelectSeq(convert_rows(resp.rows), row_kept)]

\* the function's result: the frame, the st.error message shown ("" for
\* none), and the exception leaving the function ("" for none)
Result(df, message, raised) == [df |-> df, st_error |-> message, raised |-> raised]

\* variant: without the except clause the exception of the try block
\* leaves the function
buscar_sem_except(resp) ==
  LET t == try_body(resp) IN Result(t.df, "", t.exc)

buscar_dados_fundamentus(resp) ==
  LET t == try_body(resp) IN
  IF t.exc # ""
  THEN Result(<< >>, t.exc, "")
  ELSE Result(t.df, "", "")

\* ------------------------------------------------------------ sliders
\* column values of a frame, NaN left out (min, max, quantile skip NaN)
col_values(df, col) ==
  LET idx == SelectSeq([i \in 1..Len(df) |-> i], LAMBDA i : ~ isnull(df[i][col]))
  IN [j \in 1..Len(idx) |-> df[idx[j]][col].v]

SeqRange(s) == {s[i] : i \in 1..Len(s)}

col_min(df, col) ==
  LET S == SeqRange(col_values(df, col)) IN CHOOSE x \in S : \A y \in S : x <= y

col_max(df, col) ==
  LET S == SeqRange(col_values(df, col)) IN CHOOSE x \in S : \A y \in S : x >= y

RemoveAt(s, i) == SubSeq(s, 1, i - 1) \o SubSeq(s, i + 1, Len(s))

RECURSIVE SortAsc(_)
SortAsc(s) ==
  IF s = << >> THEN << >>
  ELSE LET i == CHOOSE i \in 1..Len(s) : \A j \in 1..Len(s) : s[i] <= s[j]
       IN << s[i] >> \o SortAsc(RemoveAt(s, i))

\* Series.quantile(0.95), linear interpolation between the two order
\* statistics around position 0.95 * (n - 1), in hundredths
quantile95(df, col) ==
  LET x == SortAsc(col_values(df, col))
      h == 95 * (Len(x) - 1)
      lo == (h \div 100) + 1
      fr == h % 100
  IN IF fr = 0 THEN x[lo]
     ELSE x[lo] + (fr * (x[lo + 1] - x[lo])) \div 100

\* st.sidebar.slider(min_value, max_value, step): the values of the grid
\* min_value + k * step up to max_value, of which the model takes those
\* that meet a value of the column
slider(df, col, min_value, max_value, step) ==
  { v \in SeqRange(col_values(df, col)) \cup {min_value} :
      /\ min_value <= v
      /\ v <= max_value
      /\ (v - min_value) % step = 0 }

Criteria(dy, pvp, vac, liq) ==
  [dy_min |-> dy, pvp_max |-> pvp, vacancia_max |-> vac, liquidez_min |-> liq]

NoCriteria == Criteria(0, 0, 0, 0)

\* the four sliders of the sidebar (steps 0.1, 0.01, 0.5 and 10000.0)
sidebar(df) ==
  { Criteria(dy, pvp, vac, liq) :
      dy \in slider(df, "DIVIDEND_YIELD", col_min(df, "DIVIDEND_YIELD"),
                    col_max(df, "DIVIDEND_YIELD"), 10),
      pvp \in slider(df, "P_VP", col_min(df, "P_VP"), col_max(df, "P_VP"), 1),
      vac \in slider(df, "VACANCIA_MEDIA", col_min(df, "VACANCIA_MEDIA"),
                     col_max(df, "VACANCIA_MEDIA"), 50),
      liq \in slider(df, "LIQUIDEZ", col_min(df, "LIQUIDEZ"),
                     quantile95(df, "LIQUIDEZ"), 1000000) }

\* ------------------------------------------------------------- filter
\* comparisons of a float cell with a number; with NaN they are False
ge(c, x) == c.k = "num" /\ c.v >= x
le(c, x) == c.k = "num" /\ c.v <= x

\* variant: the yield bound written with > drops a record equal to it
mask_exclusive(r, c) ==
  /\ r.DIVIDEND_YIELD.k = "num" /\ r.DIVIDEND_YIELD.v > c.dy_min
  /\ le(r.P_VP, c.pvp_max)
  /\ le(r.VACANCIA_MEDIA, c.vacancia_max)
  /\ ge(r.LIQUIDEZ, c.liquidez_min)

\* the boolean mask of df_filtrado
mask(r, c) ==
  /\ ge(r.DIVIDEND_YIELD, c.dy_min)
  /\ le(r.P_VP, c.pvp_max)
  /\ le(r.VACANCIA_MEDIA, c.vacancia_max)
  /\ ge(r.LIQUIDEZ, c.liquidez_min)

\* the number a row is sorted by: a float cell of the frame, or the integer
\* count of a summary
sort_key(r, by) == IF by = "FIIs_Contagem" THEN r[by] ELSE r[by].v

\* DataFrame.sort_values(by=..., ascending=False) with the default
\* kind='quicksort', which pandas documents as not stable: every
\* arrangement of the rows with non-increasing keys is a possible outcome.
sort_values_desc(rows, by) ==
  LET n == Len(rows) IN
  { [i \in 1..n |-> rows[p[i]]] :
      p \in { q \in Permutations(1..n) :
                \A i \in 1..n : \A j \in 1..n :
                   i < j => sort_key(rows[q[i]], by) >= sort_key(rows[q[j]], by) } }

\* variant: the mask without the sort_values call
filtrar_unsorted(df, c) == { SelectSeq(df, LAMBDA r : mask(r, c)) }

\* the possible values of df_filtrado
filtrar(df, c) ==
  sort_values_desc(SelectSeq(df, LAMBDA r : mask(r, c)), "DIVIDEND_YIELD")

\* ---------------------------------------------------------- aggregation
\* the model's segment names in lexicographic order, the order in which
\* groupby (sort=True) emits its groups
SegmentsSorted == << "Logistics", "Shopping" >>

\* groupby('SEGMENTO') with the default dropna=True: a row whose key is
\* missing belongs to no group
group_keys(df) ==
  SelectSeq(SegmentsSorted, LAMBDA s : \E i \in 1..Len(df) : df[i].SEGMENTO = s)

group(df, s) == SelectSeq(df, LAMBDA r : r.SEGMENTO = s)

RECURSIVE SeqSum(_)
SeqSum(s) == IF s = << >> THEN 0 ELSE Head(s) + SeqSum(Tail(s))

\* 'mean' skips NaN; the mean is kept as the exact fraction sum / n
mean(df, col) ==
  LET x == col_values(df, col) IN [sum |-> SeqSum(x), n |-> Len(x)]

\* 'count' counts the non-null cells of the column
count(df, col) == Len(SelectSeq(df, LAMBDA r : r[col] # Missing))

agg(df, s) ==
  LET g == group(df, s) IN
  [ SEGMENTO |-> s,
    FIIs_Contagem |-> count(g, "TICKER"),
    DY_Medio |-> mean(g, "DIVIDEND_YIELD"),
    P_VP_Medio |-> mean(g, "P_VP"),
    Vacancia_Media |-> mean(g, "VACANCIA_MEDIA"),
    Liquidez_Medio |-> mean(g, "LIQUIDEZ") ]

\* variant: the aggregation without the sort_values call
agregar_unsorted(df) ==
  LET keys == group_keys(df) IN { [i \in 1..Len(keys) |-> agg(df, keys[i])] }

\* the possible values of analise_segmento
agregar(df) ==
  LET keys == group_keys(df) IN
  sort_values_desc([i \in 1..Len(keys) |-> agg(df, keys[i])], "FIIs_Contagem")

\* --------------------------------------------------------------- state
VARIABLES
  pc,               \* position of the script run
  now,              \* seconds since the process started
  cache,            \* the st.cache_data entry of buscar_dados_fundamentus
  requests,         \* HTTP requests issued so far
  response,         \* what the last request met
  df_fii,           \* the frame the call returned to this run
  st_error,         \* the st.error message shown in this run ("" for none)
  criteria,         \* the slider values of this run
  df_filtrado,
  analise_segmento

vars ==
  << pc, now, cache, requests, response, df_fii, st_error, criteria,
     df_filtrado, analise_segmento >>

NoResult == Result(<< >>, "", "")

EmptyCache == [valid |-> FALSE, value |-> NoResult, stored_at |-> 0]

Init ==
  /\ pc = "start"
  /\ now = 0
  /\ cache = EmptyCache
  /\ requests = 0
  /\ response = NoResponse
  /\ df_fii = << >>
  /\ st_error = ""
  /\ criteria = NoCriteria
  /\ df_filtrado = << >>
  /\ analise_segmento = << >>

\* variant: an entry stored without a ttl never expires
cache_never_expires == cache.valid

\* variant: a cache that does not serve the result of a failed refresh
cache_skips_failures ==
  cache.valid /\ cache.value.st_error = "" /\ now - cache.stored_at < TTL

\* an entry is served until ttl seconds after it was stored
cache_valid == cache.valid /\ now - cache.stored_at < TTL

TickSteps == {TTL \div 2, TTL - 1, TTL}

\* time passes between two script runs (a run itself is taken as instantaneous)
Tick ==
  /\ pc = "start"
  /\ \E d \in TickSteps : now + d <= MaxTime /\ now' = now + d
  /\ UNCHANGED << pc, cache, requests, response, df_fii, st_error, criteria,
                  df_filtrado, analise_segmento >>

\* df_fii = buscar_dados_fundamentus() served from the cache: the stored
\* value and the st.error element recorded with it are replayed
LoadHit ==
  /\ pc = "start"
  /\ cache_valid
  /\ df_fii' = cache.value.df
  /\ st_error' = cache.value.st_error
  /\ pc' = "loaded"
  /\ UNCHANGED << now, cache, requests, response, criteria, df_filtrado,
                  analise_segmento >>

\* df_fii = buscar_dados_fundamentus() on an empty or expired cache: the
\* function runs, issues its request, and its return value is stored; an
\* exception leaving the function would end the run and store nothing
LoadMiss(source) ==
  /\ pc = "start"
  /\ ~ cache_valid
  /\ requests < MaxRequests
  /\ \E resp \in source :
       LET r == buscar_dados_fundamentus(resp) IN
       /\ response' = resp
       /\ requests' = requests + 1
       /\ st_error' = r.st_error
       /\ IF r.raised = ""
          THEN /\ cache' = [valid |-> TRUE, value |-> r, stored_at |-> now]
               /\ df_fii' = r.df
               /\ pc' = "loaded"
          ELSE /\ UNCHANGED << cache, df_fii >>
               /\ pc' = "crashed"
  /\ UNCHANGED << now, criteria, df_filtrado, analise_segmento >>

\* if not df_fii.empty: ... (the whole page below the title)
df_empty(df) == df = << >>

ApplyFilter(options) ==
  /\ pc = "loaded"
  /\ ~ df_empty(df_fii)
  /\ \E c \in options : \E out \in filtrar(df_fii, c) :
       /\ criteria' = c
       /\ df_filtrado' = out
  /\ pc' = "filtered"
  /\ UNCHANGED << now, cache, requests, response, df_fii, st_error,
                  analise_segmento >>

\* the sliders and df_filtrado
Filter == ApplyFilter(sidebar(df_fii))

\* an empty frame: nothing below the title is run
EmptyPage ==
  /\ pc = "loaded"
  /\ df_empty(df_fii)
  /\ pc' = "done"
  /\ UNCHANGED << now, cache, requests, response, df_fii, st_error, criteria,
                  df_filtrado, analise_segmento >>

\* if not df_filtrado.empty: analise_segmento = ...
Aggregate ==
  /\ pc = "filtered"
  /\ ~ df_empty(df_filtrado)
  /\ \E a \in agregar(df_filtrado) : analise_segmento' = a
  /\ pc' = "done"
  /\ UNCHANGED << now, cache, requests, response, df_fii, st_error, criteria,
                  df_filtrado >>

\* else: st.warning(...)
NoAnalysis ==
  /\ pc = "filtered"
  /\ df_empty(df_filtrado)
  /\ pc' = "done"
  /\ UNCHANGED << now, cache, requests, response, df_fii, st_error, criteria,
                  df_filtrado, analise_segmento >>

\* Streamlit runs the script again (a widget changed, a new session); the
\* locals of the run are gone, the cache is the process's
Rerun ==
  /\ pc # "start"
  /\ pc' = "start"
  /\ df_fii' = << >>
  /\ st_error' = ""
  /\ criteria' = NoCriteria
  /\ df_filtrado' = << >>
  /\ analise_segmento' = << >>
  /\ UNCHANGED << now, cache, requests, response >>

\* one page: a script run from the fetch to the segment table
Next ==
  \/ LoadHit
  \/ LoadMiss(Responses)
  \/ Filter
  \/ EmptyPage
  \/ Aggregate
  \/ NoAnalysis
  \/ Rerun

Spec == Init /\ [][Next]_vars

\* the cached call over time: calls separated by clock ticks
CacheResponses ==
  FailedResponses
    \cup { Response("table", Len(COLUMNS), t) :
             t \in { << >>, << RowA >>, << RowB, RowC >>, << RowA, RowX6 >> } }

NextCache ==
  \/ Tick
  \/ LoadHit
  \/ LoadMiss(CacheResponses)
  \/ Rerun

SpecCache == Init /\ [][NextCache]_vars

\* the filter as a function: any frame the normaliser can produce, any
\* thresholds of a grid
Datasets == { buscar_dados_fundamentus(r).df : r \in Responses }

CriteriaGrid ==
  { Criteria(dy, pvp, vac, liq) :
      dy \in {600, 700, 800, 1000}, pvp \in {80, 90, 150},
      vac \in {100, 500, 1000}, liq \in {1000000, 5000000, 8000000} }

InitFilter ==
  /\ pc = "loaded"
  /\ now = 0
  /\ cache = EmptyCache
  /\ requests = 0
  /\ response = NoResponse
  /\ df_fii \in Datasets
  /\ st_error = ""
  /\ criteria = NoCriteria
  /\ df_filtrado = << >>
  /\ analise_segmento = << >>

FilterGrid == ApplyFilter(CriteriaGrid)

NextFilter == FilterGrid

SpecFilter == InitFilter /\ [][NextFilter]_vars

\* ==================================================================
\* Properties
\* ==================================================================
Rows(df) == {df[i] : i \in 1..Len(df)}

IsNumber(c) == c.k = "num"

\* the position of a row in a frame without repeated rows
IndexIn(df, r) == CHOOSE i \in 1..Len(df) : df[i] = r

\* ------------------------------------------------------------------ C1
\* C1: every row of the frame returned by buscar_dados_fundamentus (and of
\* the frame kept in the cache) has a non-null dividend yield, P/VP,
\* vacancy and liquidity, and a liquidity above zero.
C1_RowValidity ==
  \A r \in Rows(df_fii) \cup Rows(cache.value.df) :
    /\ IsNumber(r.DIVIDEND_YIELD)
    /\ IsNumber(r.P_VP)
    /\ IsNumber(r.VACANCIA_MEDIA)
    /\ IsNumber(r.LIQUIDEZ)
    /\ r.LIQUIDEZ.v > 0

\* a table was normalised, a row was dropped and another survived
C1_Witness ==
  /\ pc = "loaded"
  /\ response.kind = "table"
  /\ Len(df_fii) > 0
  /\ Len(df_fii) < Len(response.rows)
  /\ \E i \in 1..Len(response.rows) : response.rows[i].LIQUIDEZ = Num(0)

\* ------------------------------------------------------------------ C2
\* a raw row that is valid on its own: its percentage cells parse and it
\* passes the two row filters
RowValid(r) ==
  /\ \A j \in 1..Len(cols_percent) : clean_percent(r[cols_percent[j]]).ok
  /\ row_kept(convert_row(r))

\* C2: for a table of the expected 13 columns, every valid raw row is in
\* the returned frame, whatever the other rows hold (a row-level failure
\* excludes only that row).
C2_RowFailureExcludesOnlyThatRow ==
  (pc = "loaded" /\ response.kind = "table" /\ response.ncols = Len(COLUMNS))
    => \A i \in 1..Len(response.rows) :
         RowValid(response.rows[i])
           => \E j \in 1..Len(df_fii) :
                df_fii[j].TICKER = response.rows[i].TICKER

\* ------------------------------------------------------------------ C3
FetchFailed(resp) ==
  \/ resp.kind = "transport_error"
  \/ resp.kind = "no_table"
  \/ (resp.kind = "table" /\ resp.ncols # Len(COLUMNS))

\* C3: no exception leaves buscar_dados_fundamentus; after a transport
\* failure, a response without a table or a table that has not 13 columns
\* the run holds an empty frame and an error message, and neither the
\* filter nor the aggregation is run on it.
C3_FailureGivesEmptyDataset ==
  /\ pc # "crashed"
  /\ (pc # "start" /\ FetchFailed(response))
       => /\ df_fii = << >>
          /\ st_error # ""
          /\ pc \in {"loaded", "done"}
          /\ df_filtrado = << >>
          /\ analise_segmento = << >>

\* the page of a run whose table had 12 columns ended with the title only
C3_Witness ==
  /\ pc = "done"
  /\ response.kind = "table"
  /\ response.ncols # Len(COLUMNS)
  /\ st_error # ""

\* ------------------------------------------------------------------ C4
\* a step that is a call of buscar_dados_fundamentus
IsCall == pc = "start" /\ pc' # "start"

\* C4: a call less than 3600 seconds after the last populating call
\* returns the stored result and issues no request; the first call and a
\* call after expiry issue exactly one request and replace the entry
\* wholesale; the entry changes in no other step.
C4_CacheTTL ==
  [][ /\ IsCall =>
           IF cache.valid /\ now - cache.stored_at < 3600
           THEN /\ requests' = requests
                /\ cache' = cache
                /\ df_fii' = cache.value.df
           ELSE /\ requests' = requests + 1
                /\ cache'.valid
                /\ cache'.stored_at = now
                /\ cache'.value.df = df_fii'
                /\ cache'.value.st_error = st_error'
      /\ cache' # cache =>
           /\ IsCall
           /\ (~ cache.valid \/ now - cache.stored_at >= 3600)
    ]_vars

\* a second request was issued, an hour or more after the first, and a
\* later call within the new window was served from the cache
C4_Witness ==
  /\ pc = "loaded"
  /\ requests = 2
  /\ cache.stored_at >= 3600
  /\ now > cache.stored_at
  /\ now - cache.stored_at < 3600

\* ------------------------------------------------------------------ C5
E2E_Dataset == convert_rows(<< RowA, RowB, RowC >>)

E2E_Criteria == Criteria(700, 150, 1000, 1000000)

Tickers(df) == [i \in 1..Len(df) |-> df[i].TICKER]

\* the claim's predicate, written on the numbers of a normalised record
Satisfies(r, c) ==
  /\ r.DIVIDEND_YIELD.v >= c.dy_min
  /\ r.P_VP.v <= c.pvp_max
  /\ r.VACANCIA_MEDIA.v <= c.vacancia_max
  /\ r.LIQUIDEZ.v >= c.liquidez_min

\* C5: the filter leaves the dataset unchanged and its output holds
\* exactly the records that meet the four inclusive bounds, each once; in
\* the end-to-end scenario the output is [B, A].
C5_FilterExactlyMatching ==
  [][ (pc = "loaded" /\ pc' = "filtered") =>
        /\ df_fii' = df_fii
        /\ Rows(df_filtrado') = {r \in Rows(df_fii) : Satisfies(r, criteria')}
        /\ Len(df_filtrado') = Cardinality(Rows(df_filtrado'))
        /\ (df_fii = E2E_Dataset /\ criteria' = E2E_Criteria)
             => Tickers(df_filtrado') = << "B", "A" >>
    ]_vars

\* the end-to-end scenario was filtered
C5_Witness ==
  /\ pc = "filtered"
  /\ df_fii = E2E_Dataset
  /\ criteria = E2E_Criteria
  /\ Len(df_filtrado) = 2

\* ------------------------------------------------------------------ C6
SortedByYieldDesc(df) ==
  \A i \in 1..Len(df) : \A j \in 1..Len(df) :
    i < j => df[i].DIVIDEND_YIELD.v >= df[j].DIVIDEND_YIELD.v

\* C6 as stated: the filter output is in descending order of dividend
\* yield and records of equal yield keep the relative order of the input.
C6_SortedAndStable ==
  pc = "filtered" =>
    /\ SortedByYieldDesc(df_filtrado)
    /\ \A i \in 1..Len(df_filtrado) : \A j \in 1..Len(df_filtrado) :
         (i < j /\ df_filtrado[i].DIVIDEND_YIELD = df_filtrado[j].DIVIDEND_YIELD)
           => IndexIn(df_fii, df_filtrado[i]) < IndexIn(df_fii, df_filtrado[j])

\* C6 amended: the filter output is in descending order of dividend yield
\* (nothing is promised about records of equal yield).
C6_SortedDescending == pc = "filtered" => SortedByYieldDesc(df_filtrado)

\* an output of three records, two of them with the same yield
C6_Witness ==
  /\ pc = "filtered"
  /\ Len(df_filtrado) = 3
  /\ df_filtrado[1].DIVIDEND_YIELD.v > df_filtrado[2].DIVIDEND_YIELD.v
  /\ df_filtrado[2].DIVIDEND_YIELD = df_filtrado[3].DIVIDEND_YIELD

\* ------------------------------------------------------------------ C7
Members(df, s) == {i \in 1..Len(df) : df[i].SEGMENTO = s}

RECURSIVE SumOver(_, _, _)
SumOver(df, col, I) ==
  IF I = {} THEN 0
  ELSE LET i == CHOOSE i \in I : TRUE IN df[i][col].v + SumOver(df, col, I \ {i})

IsMeanOf(m, df, col, I) == m.n = Cardinality(I) /\ m.sum = SumOver(df, col, I)

RECURSIVE SumCounts(_)
SumCounts(a) == IF a = << >> THEN 0 ELSE Head(a).FIIs_Contagem + SumCounts(Tail(a))

AggregateRan == pc = "done" /\ df_filtrado # << >>

\* C7: each summary counts the records of its segment (at least one), its
\* means are the arithmetic means over exactly those records, and the
\* counts add up to the size of the aggregated dataset.
C7_AggregateCorrect ==
  AggregateRan =>
    /\ \A k \in 1..Len(analise_segmento) :
         LET S == analise_segmento[k]
             I == Members(df_filtrado, S.SEGMENTO)
         IN /\ S.FIIs_Contagem = Cardinality(I)
            /\ S.FIIs_Contagem >= 1
            /\ IsMeanOf(S.DY_Medio, df_filtrado, "DIVIDEND_YIELD", I)
            /\ IsMeanOf(S.P_VP_Medio, df_filtrado, "P_VP", I)
            /\ IsMeanOf(S.Vacancia_Media, df_filtrado, "VACANCIA_MEDIA", I)
            /\ IsMeanOf(S.Liquidez_Medio, df_filtrado, "LIQUIDEZ", I)
    /\ SumCounts(analise_segmento) = Len(df_filtrado)

\* ------------------------------------------------------------------ C8
SortedByCountDesc(a) ==
  \A i \in 1..Len(a) : \A j \in 1..Len(a) :
    i < j => a[i].FIIs_Contagem >= a[j].FIIs_Contagem

FirstAppearance(df, s) ==
  CHOOSE i \in Members(df, s) : \A j \in Members(df, s) : i <= j

\* C8 as stated: the summaries are in descending order of count, and
\* segments of equal count are in the order of their first appearance in
\* the aggregated dataset.
C8_CountThenFirstAppearance ==
  AggregateRan =>
    /\ SortedByCountDesc(analise_segmento)
    /\ \A i \in 1..Len(analise_segmento) : \A j \in 1..Len(analise_segmento) :
         (i < j /\ analise_segmento[i].FIIs_Contagem
                     = analise_segmento[j].FIIs_Contagem)
           => FirstAppearance(df_filtrado, analise_segmento[i].SEGMENTO)
                < FirstAppearance(df_filtrado, analise_segmento[j].SEGMENTO)

\* C8 amended: the summaries are in descending order of count (nothing is
\* promised about segments of equal count).
C8_SortedByCountDescending == AggregateRan => SortedByCountDesc(analise_segmento)

\* two summaries with different counts
C8_Witness ==
  /\ AggregateRan
  /\ Len(analise_segmento) = 2
  /\ analise_segmento[1].FIIs_Contagem > analise_segmento[2].FIIs_Contagem

\* ----------------------------------------------------------------- C10
\* C10: a refresh that fails is stored like one that succeeds, and every
\* call within 3600 seconds of it returns the empty frame (and its
\* message) from the cache without a new request.
C10_FailedRefreshIsCached ==
  [][ /\ (IsCall /\ requests' # requests /\ try_body(response').exc # "")
           => /\ cache'.valid
              /\ cache'.stored_at = now
              /\ cache'.value.df = << >>
      /\ (IsCall /\ cache.valid /\ cache.value.st_error # ""
            /\ now - cache.stored_at < 3600)
           => /\ requests' = requests
              /\ cache' = cache
              /\ df_fii' = << >>
              /\ st_error' = cache.value.st_error
    ]_vars

\* half an hour or more after a failed refresh a call was served the
\* stored empty frame, with the single request of the failed refresh
C10_Witness ==
  /\ pc = "loaded"
  /\ requests = 1
  /\ FetchFailed(response)
  /\ cache.valid
  /\ now > cache.stored_at
  /\ now - cache.stored_at < 3600
  /\ df_fii = << >>
  /\ st_error # ""

====
